---- MODULE Spec2Model ----
(***************************************************************************)
(* Model of the restaurant recommender.                                    *)
(* Spec: the ranking engine (src/phase4), that is                          *)
(* GroqEngine.generate_recommendations with its context builder, response  *)
(* parser, merge step and rule-based fallback.                             *)
(* SpecParser: ResponseParser.parse_response called on its own.            *)
(* SpecData: the filter, scoring and integration pipeline (src/phase3)     *)
(* behind POST /api/recommend (src/phase6), up to the hand-over of the     *)
(* pool to the ranking engine.                                             *)
(*                                                                         *)
(* A DataFrame is a sequence of rows in positional order; every row        *)
(* carries its index label in idx.  Restaurant names are sequences of      *)
(* one-character strings, so that str.lower() is computed letter by        *)
(* letter.  A dictionary key or DataFrame column that may be absent is a   *)
(* sequence of length 0 (absent) or 1 (present).                           *)
(***************************************************************************)
EXTENDS Integers, Sequences, FiniteSets, TLC

VARIABLES
    pc,        \* position of the engine / of the running invocation
    apiKey,    \* GroqEngine.api_key is set
    client,    \* GroqEngine.client is not None
    pool,      \* filtered_df, the pool handed to generate_recommendations
    topK,      \* top_k
    context,   \* context_str: the names of the rows serialised for the prompt
    response,  \* the outcome of client.chat.completions.create
    recs,      \* recommendations_data, the parser's output
    fbK,       \* the top_k argument the pending _fallback_ranking call gets
    result,    \* the DataFrame the invocation returns
    raised,    \* an exception left generate_recommendations
    calls,     \* completions.create calls issued by this invocation
    outcome,   \* what the completions.create call did: "none", "threw", "returned"
    trace,     \* the steps this invocation has taken, in order
    ptext,     \* response_text handed to a direct parse_response call
    pout,      \* what that call did: the list returned, or a raise
    ppc,       \* position of the direct parse_response call
    catalog,   \* ServiceContainer.df, the shared catalog (NoCatalog: None)
    criteria,  \* user_input: [city, price]
    byCity,    \* what filter_by_city returned
    subset,    \* what apply_filters returned
    scored,    \* what engineer_features returned
    dpool,     \* what integrate returned
    http,      \* the answer of POST /api/recommend
    draised,   \* an exception left integrate
    dpc,       \* position of the service / of the running request
    store,     \* ServiceContainer.df as the concurrent requests share it
    asLoaded,  \* the catalog as load_resources read it
    reqs       \* the concurrent requests: one record of local frames each

rankVars == <<pc, apiKey, client, pool, topK, context, response, recs, fbK,
              result, raised, calls, outcome, trace>>
parserVars == <<ptext, pout, ppc>>
dataVars == <<catalog, criteria, byCity, subset, scored, dpool, http, draised, dpc>>
sharedVars == <<store, asLoaded, reqs>>
nonRankVars == <<parserVars, dataVars, sharedVars>>

vars == <<rankVars, parserVars, dataVars, sharedVars>>

----------------------------------------------------------------------------
(* Bounds of the model *)

MaxPool == 2
MaxTopK == 2
MaxDecisions == 2

(* Program constants *)

DefaultTopK == 10
MaxItems == 50
MergeFallbackK == 10
DefaultRank == 99

(* the missing value of a numeric column (pandas NaN); every present      *)
(* number of the model is positive.  Ratings are kept times ten.           *)
NaN == -1

FallbackReason == "Best match based on rating and popularity."
DefaultReason == "Recommended by AI"

Min(a, b) == IF a <= b THEN a ELSE b

----------------------------------------------------------------------------
(* str.lower() *)

UpperChars ==
    <<"A","B","C","D","E","F","G","H","I","J","K","L","M",
      "N","O","P","Q","R","S","T","U","V","W","X","Y","Z">>

LowerChars ==
    <<"a","b","c","d","e","f","g","h","i","j","k","l","m",
      "n","o","p","q","r","s","t","u","v","w","x","y","z">>

LowerChar(c) ==
    IF \E i \in 1..Len(UpperChars) : UpperChars[i] = c
    THEN LowerChars[CHOOSE i \in 1..Len(UpperChars) : UpperChars[i] = c]
    ELSE c

Lower(s) == [i \in 1..Len(s) |-> LowerChar(s[i])]

----------------------------------------------------------------------------
(* ContextManager.prepare_context *)

ContextLine(row) ==
    [name |-> row.name, rate |-> row.rate, votes |-> row.votes, price |-> row.price]

(* the bug of leaving out head(max_items): one line for every pool row *)
PrepareContextWholePool(df, max_items) ==
    IF df.rows = <<>>
    THEN <<"No restaurants available.">>
    ELSE [i \in 1..Len(df.rows) |-> ContextLine(df.rows[i])]

PrepareContext(df, max_items) ==
    IF df.rows = <<>>
    THEN <<"No restaurants available.">>
    ELSE LET candidates == SubSeq(df.rows, 1, Min(max_items, Len(df.rows)))
         IN  [i \in 1..Len(candidates) |-> ContextLine(candidates[i])]

----------------------------------------------------------------------------
(* ResponseParser.parse_response                                           *)
(* A response text is a sequence of tokens: the fence marker "```", the    *)
(* tag "json", white space, prose, the proper prefix of a JSON document,   *)
(* and the pieces of the serialization of a JSON document.  json.dumps     *)
(* writes the characters of a string as they are, so a document with n     *)
(* fence markers inside its strings serializes to n + 1 pieces with a      *)
(* fence marker between each two.  A JSON value is [type, items].          *)

Json(type, items) == [type |-> type, items |-> items]
NoDoc == Json("none", <<>>)

Tok(t) == [tok |-> t, doc |-> NoDoc, part |-> 0, of |-> 0]
Fence == Tok("fence")
JsonTag == Tok("json")
Ws == Tok("ws")
Prose == Tok("prose")
Piece(doc, i, n) == [tok |-> "piece", doc |-> doc, part |-> i, of |-> n]
Truncated(doc) == [tok |-> "prefix", doc |-> doc, part |-> 0, of |-> 0]

(* message.content of a completion without content *)
NoneText == <<Tok("None")>>

(* the number of fence markers written inside a reason text; in the       *)
(* strings of this module ''' stands for the three backquotes              *)
FenceCount(s) ==
    CASE s = "Try the '''masala''' dosa" -> 2
      [] s = "Ask for '''extra spicy" -> 1
      [] OTHER -> 0

RECURSIVE ItemsFences(_, _)
ItemsFences(items, i) ==
    IF i > Len(items) THEN 0
    ELSE (IF items[i].reason # <<>> THEN FenceCount(items[i].reason[1]) ELSE 0)
         + ItemsFences(items, i + 1)

DocFences(doc) == IF doc.type = "array" THEN ItemsFences(doc.items, 1) ELSE 0

(* json.dumps *)
Serialize(doc) ==
    LET n == DocFences(doc) + 1
    IN  [k \in 1..(2 * n - 1) |->
            IF k % 2 = 1 THEN Piece(doc, (k + 1) \div 2, n) ELSE Fence]

(* str.strip *)
Strip(text) ==
    LET solid == {i \in 1..Len(text) : text[i] # Ws}
    IN  IF solid = {} THEN <<>>
        ELSE SubSeq(text, CHOOSE i \in solid : \A j \in solid : i <= j,
                          CHOOSE i \in solid : \A j \in solid : i >= j)

(* the positions of "```json" and of "```" in the text *)
JsonFences(text) ==
    {i \in 1..Len(text) - 1 : text[i] = Fence /\ text[i + 1] = JsonTag}
Fences(text) == {i \in 1..Len(text) : text[i] = Fence}

(* re.search of "```json(.*?)```" and of "```(.*?)```": the leftmost      *)
(* opening and the nearest fence marker after it; skip is the length of    *)
(* the opening.  <<>> when nothing matches, else <<group 1>>.              *)
SearchFence(text, openings, skip) ==
    LET i == CHOOSE x \in openings : \A y \in openings : x <= y
        closings == {j \in Fences(text) : j >= i + skip}
    IN  IF closings = {} THEN <<>>
        ELSE LET j == CHOOSE x \in closings : \A y \in closings : x <= y
             IN  << SubSeq(text, i + skip, j - 1) >>

(* lines 18-30 *)
CleanText(text) ==
    LET cleaned_text == Strip(text)
    IN  IF JsonFences(cleaned_text) # {}
        THEN LET match == SearchFence(cleaned_text, JsonFences(cleaned_text), 2)
             IN  IF match # <<>> THEN Strip(match[1]) ELSE cleaned_text
        ELSE IF Fences(cleaned_text) # {}
             THEN LET match == SearchFence(cleaned_text, Fences(cleaned_text), 1)
                  IN  IF match # <<>> THEN Strip(match[1]) ELSE cleaned_text
             ELSE cleaned_text

(* json.loads: the text is the whole serialization of one document *)
JsonLoads(text) ==
    IF text # <<>> /\ text[1].tok = "piece" /\ text = Serialize(text[1].doc)
    THEN [exc |-> "none", doc |-> text[1].doc]
    ELSE [exc |-> "JSONDecodeError", doc |-> NoDoc]

(* lines 18-40: the body of the try *)
ParseAttempt(response_text) ==
    IF response_text = NoneText
    THEN [exc |-> "AttributeError", data |-> <<>>]
    ELSE LET loaded == JsonLoads(CleanText(response_text))
         IN  IF loaded.exc # "none"
             THEN [exc |-> loaded.exc, data |-> <<>>]
             ELSE IF loaded.doc.type # "array"
                  THEN [exc |-> "none", data |-> <<>>]
                  ELSE [exc |-> "none", data |-> loaded.doc.items]

(* the bug of a parser without handlers *)
ParserCatchesNothing(exc) == FALSE

(* lines 42-47: except json.JSONDecodeError, except Exception *)
ParserCatches(exc) == exc = "JSONDecodeError" \/ exc \in {"AttributeError"}

ParseResponse(response_text) ==
    LET a == ParseAttempt(response_text)
    IN  IF a.exc = "none"
        THEN [status |-> "ok", data |-> a.data]
        ELSE IF ParserCatches(a.exc)
             THEN [status |-> "ok", data |-> <<>>]
             ELSE [status |-> "raise", data |-> <<>>]

----------------------------------------------------------------------------
(* GroqEngine._fallback_ranking                                            *)
(* sort_values over several columns is a stable lexicographic sort that    *)
(* puts a missing value after every present one, whatever the direction.   *)
(* Over a single column it sorts with kind='quicksort', which is not       *)
(* stable: rows equal on that column may come out in any order.            *)

SortCols == <<"rate", "votes", "price">>

(* the bug of leaving out ascending=: every column sorts ascending *)
AscendingDefault == [rate |-> TRUE, votes |-> TRUE, price |-> TRUE]

Ascending == [rate |-> FALSE, votes |-> FALSE, price |-> TRUE]

RECURSIVE SortBefore(_, _, _)
SortBefore(a, b, cols) ==
    IF cols = <<>>
    THEN FALSE
    ELSE LET c == Head(cols)
         IN  IF a[c] = b[c]
             THEN SortBefore(a, b, Tail(cols))
             ELSE IF a[c] = NaN
                  THEN FALSE
                  ELSE IF b[c] = NaN
                       THEN TRUE
                       ELSE IF Ascending[c] THEN a[c] < b[c] ELSE a[c] > b[c]

RECURSIVE InsertSorted(_, _, _)
InsertSorted(s, x, cols) ==
    IF s = <<>>
    THEN <<x>>
    ELSE IF SortBefore(x, Head(s), cols)
         THEN <<x>> \o s
         ELSE <<Head(s)>> \o InsertSorted(Tail(s), x, cols)

RECURSIVE SortValues(_, _)
SortValues(rows, cols) ==
    IF rows = <<>>
    THEN <<>>
    ELSE InsertSorted(SortValues(SubSeq(rows, 1, Len(rows) - 1), cols),
                      rows[Len(rows)], cols)

(* the orderings of rows *)
Reorderings(rows) ==
    { [i \in 1..Len(rows) |-> rows[p[i]]] :
        p \in { f \in [1..Len(rows) -> 1..Len(rows)] :
                  \A i, j \in 1..Len(rows) : i # j => f[i] # f[j] } }

(* line 134: the frames sort_values may return *)
SortOutcomes(rows, cols) ==
    IF Len(cols) = 1
    THEN { s \in Reorderings(rows) :
             \A i, j \in 1..Len(s) : i < j => ~SortBefore(s[j], s[i], cols) }
    ELSE {SortValues(rows, cols)}

(* the bug of building the result row from the decision instead of the    *)
(* copy of the pool row: only the name is there                            *)
WithReasonNameOnly(row, reason, rank) ==
    [idx |-> row.idx, name |-> row.name, rate |-> NaN, votes |-> NaN,
     price |-> NaN, reason |-> reason, llm_rank |-> rank]

WithReason(row, reason, rank) ==
    [idx |-> row.idx, name |-> row.name, rate |-> row.rate, votes |-> row.votes,
     price |-> row.price, reason |-> reason, llm_rank |-> rank]

Head_(rows, n) == SubSeq(rows, 1, Min(n, Len(rows)))

(* the frames _fallback_ranking may return *)
FallbackRows(df, top_k) ==
    LET actual_cols == SelectSeq(SortCols, LAMBDA c : c \in df.cols)
        sorted == IF actual_cols # <<>>
                  THEN SortOutcomes(df.rows, actual_cols)
                  ELSE {df.rows}
    IN  { Head_([i \in 1..Len(df_sorted) |->
                    WithReason(df_sorted[i], FallbackReason, <<>>)], top_k) :
            df_sorted \in sorted }

(* the bug of reading the first row of the sorted frame: raises on an     *)
(* empty DataFrame                                                         *)
FallbackRankingFirstRow(df, top_k) ==
    IF df.rows = <<>>
    THEN {[status |-> "raise", rows |-> <<>>]}
    ELSE {[status |-> "ok", rows |-> r] : r \in FallbackRows(df, top_k)}

(* no statement of _fallback_ranking raises on a DataFrame whose sort     *)
(* columns are numeric or missing, whatever its length                     *)
FallbackRanking(df, top_k) ==
    {[status |-> "ok", rows |-> r] : r \in FallbackRows(df, top_k)}

----------------------------------------------------------------------------
(* GroqEngine._merge_recommendations                                       *)
(* rec_data is a sequence of JSON items [kind, name, rank, reason]; kind   *)
(* is "object" or "scalar", and each key is absent (<<>>) or present.      *)

RecKeys == {"name", "rank", "reason"}

RecColumns(rec_data) ==
    {k \in RecKeys : \E i \in 1..Len(rec_data) : rec_data[i][k] # <<>>}

HasName(rec_data, rec) == "name" \in RecColumns(rec_data) /\ rec.name # <<>>

GetReason(rec_data, rec) ==
    IF "reason" \notin RecColumns(rec_data)
    THEN DefaultReason
    ELSE IF rec.reason = <<>> THEN "nan" ELSE rec.reason[1]

GetRank(rec_data, rec) ==
    IF "rank" \notin RecColumns(rec_data)
    THEN DefaultRank
    ELSE IF rec.rank = <<>> THEN NaN ELSE rec.rank[1]

(* the bug of comparing the names as written *)
MatchRowsExactCase(original_df, name) ==
    SelectSeq(original_df.rows, LAMBDA r : r.name = name)

MatchRows(original_df, name) ==
    SelectSeq(original_df.rows, LAMBDA r : Lower(r.name) = Lower(name))

(* the bug of leaving out the deduplication check *)
AlreadyMergedNever(merged_results, row) == FALSE

(* line 105: the deduplication check *)
AlreadyMerged(merged_results, row) ==
    \E j \in 1..Len(merged_results) : merged_results[j].name = row.name

RECURSIVE MergeLoop(_, _, _, _)
MergeLoop(original_df, rec_data, i, merged_results) ==
    IF i > Len(rec_data)
    THEN [status |-> "ok", rows |-> merged_results]
    ELSE LET rec == rec_data[i]
         IN  IF ~HasName(rec_data, rec) \/ "name" \notin original_df.cols
             THEN [status |-> "raise", rows |-> <<>>]
             ELSE LET match == MatchRows(original_df, rec.name[1])
                  IN  IF match # <<>>
                      THEN LET row == WithReason(match[1],
                                                 GetReason(rec_data, rec),
                                                 <<GetRank(rec_data, rec)>>)
                           IN  IF ~AlreadyMerged(merged_results, row)
                               THEN MergeLoop(original_df, rec_data, i + 1,
                                              Append(merged_results, row))
                               ELSE MergeLoop(original_df, rec_data, i + 1,
                                              merged_results)
                      ELSE MergeLoop(original_df, rec_data, i + 1, merged_results)

(* the bug of skipping the elements without a usable name and merging the *)
(* others                                                                  *)
MergeRecommendationsSkipping(original_df, rec_data) ==
    LET usable == SelectSeq(rec_data, LAMBDA rec : rec.kind = "object" /\ rec.name # <<>>)
        m == MergeLoop(original_df, usable, 1, <<>>)
    IN  IF m.status = "ok" /\ m.rows = <<>>
        THEN [status |-> "fallback", rows |-> <<>>]
        ELSE m

MergeRecommendations(original_df, rec_data) ==
    IF \E i \in 1..Len(rec_data) : rec_data[i].kind # "object"
    THEN [status |-> "raise", rows |-> <<>>]
    ELSE LET m == MergeLoop(original_df, rec_data, 1, <<>>)
         IN  IF m.status = "ok" /\ m.rows = <<>>
             THEN [status |-> "fallback", rows |-> <<>>]
             ELSE m

----------------------------------------------------------------------------
(* Inputs: the pools, the top_k values and the responses of the service    *)
(* the model draws from.                                                   *)

PoolCols == {"name", "rate", "votes", "price"}

KFC == <<"K", "F", "C">>
Kfc == <<"K", "f", "c">>
Taj == <<"T", "a", "j">>
PizzaHut == <<"P", "i", "z", "z", "a", " ", "H", "u", "t">>
Dominos == <<"D", "o", "m", "i", "n", "o", "s">>
BurgerKing == <<"B", "u", "r", "g", "e", "r", " ", "K", "i", "n", "g">>

PoolNames == {KFC, Kfc, Taj}
Rates == {40, 41}

Row(i, name, rate, votes, price) ==
    [idx |-> i, name |-> name, rate |-> rate, votes |-> votes, price |-> price]

GeneratedPools ==
    UNION { { [cols |-> PoolCols,
               rows |-> [i \in 1..n |-> Row(i, f[i][1], f[i][2], 100, 500)]] :
              f \in [1..n -> PoolNames \X Rates] } : n \in 0..MaxPool }

(* sample_data of src/phase4/tests/test_groq_engine.py, ratings times ten *)
SampleData ==
    [cols |-> PoolCols,
     rows |-> << Row(1, PizzaHut, 41, 100, 500),
                 Row(2, Dominos, 40, 200, 400),
                 Row(3, BurgerKing, 38, 50, 300) >>]

(* rows with missing values, ties on the rating and distinct other keys *)
SparsePool ==
    [cols |-> PoolCols,
     rows |-> << Row(1, Taj, NaN, 50, 300),
                 Row(2, KFC, 40, 200, NaN),
                 Row(3, Kfc, 40, 200, 400) >>]

(* a pool that has none of the three sort columns *)
NamesOnlyPool ==
    [cols |-> {"name"},
     rows |-> << Row(1, Taj, NaN, NaN, NaN), Row(2, KFC, NaN, NaN, NaN) >>]

(* a pool with one of the three sort columns and two rows equal on it *)
RateOnlyPool ==
    [cols |-> {"name", "rate"},
     rows |-> << Row(1, Taj, 40, NaN, NaN), Row(2, KFC, 41, NaN, NaN),
                 Row(3, Kfc, 40, NaN, NaN) >>]

(* a pool of one row more than the context takes, the rows named R01,     *)
(* R02, ...; like NamesOnlyPool it has none of the three sort columns      *)
Digits == <<"0", "1", "2", "3", "4", "5", "6", "7", "8", "9">>
BigName(i) == <<"R", Digits[(i \div 10) + 1], Digits[(i % 10) + 1]>>

BigPool ==
    [cols |-> {"name"},
     rows |-> [i \in 1..(MaxItems + 1) |-> Row(i, BigName(i), NaN, NaN, NaN)]]

Pools == GeneratedPools \cup {SampleData, SparsePool, NamesOnlyPool, RateOnlyPool, BigPool}

TopKs == (1..MaxTopK) \cup {DefaultTopK}

ReasonTexts == <<"High votes", "Good rating", "Great value", "Known for Biryani">>

DecisionNames == { <<"k", "f", "c">>, <<"G", "h", "o", "s", "t">> }
DecisionRanks == { <<>>, <<1>> }

Decision(name, rank, reason) ==
    [kind |-> "object", name |-> name, rank |-> rank, reason |-> reason]

(* arrays of up to MaxDecisions decisions; the i-th decision carries the  *)
(* i-th reason text                                                        *)
GeneratedArrays ==
    UNION { { [i \in 1..n |-> Decision(<<f[i][1]>>, f[i][2], <<ReasonTexts[i]>>)] :
              f \in [1..n -> DecisionNames \X DecisionRanks] } : n \in 0..MaxDecisions }

(* a JSON array element that is no object *)
Scalar == [kind |-> "scalar", name |-> <<>>, rank |-> <<>>, reason |-> <<>>]

(* the response of test_engine_llm_flow *)
TestArray ==
    << Decision(<<Dominos>>, <<1>>, <<"High votes">>),
       Decision(<<PizzaHut>>, <<2>>, <<"Good rating">>) >>

(* two decisions for two rows, only the second with a rank *)
MixedRankArray ==
    << Decision(<<Lower(Taj)>>, <<>>, <<"x">>), Decision(<<KFC>>, <<1>>, <<"y">>) >>

(* decisions for the last row of BigPool and for its first row *)
BeyondContextArray ==
    << Decision(<<Lower(BigName(MaxItems + 1))>>, <<1>>, <<"x">>),
       Decision(<<BigName(1)>>, <<2>>, <<"y">>) >>

(* responses naming two different rows, with every mix of present and     *)
(* absent rank and reason, one row twice in two spellings, and elements    *)
(* without a usable name                                                   *)
SpecialArrays ==
    { TestArray,
      MixedRankArray,
      << Decision(<<KFC>>, <<2>>, <<"x">>), Decision(<<Lower(KFC)>>, <<1>>, <<"y">>) >>,
      << Decision(<<Lower(KFC)>>, <<2>>, <<"x">>), Decision(<<Taj>>, <<1>>, <<"y">>) >>,
      << Decision(<<Taj>>, <<2>>, <<>>), Decision(<<KFC>>, <<1>>, <<>>) >>,
      << Decision(<<Taj>>, <<1>>, <<"x">>), Decision(<<KFC>>, <<2>>, <<>>) >>,
      << Decision(<<Taj>>, <<>>, <<"x">>), Decision(<<Kfc>>, <<>>, <<"y">>) >>,
      << Decision(<<Taj>>, <<1>>, <<"x">>), Decision(<<>>, <<2>>, <<"y">>) >>,
      << Decision(<<>>, <<1>>, <<"x">>) >>,
      << Decision(<<Taj>>, <<1>>, <<"x">>), Scalar >>,
      << Scalar >>,
      BeyondContextArray }

(* a text around a serialization: as it is, inside a "```json" or a bare *)
(* "```" fence, the same without the closing marker, and a "```json"       *)
(* fence between two lines of prose                                        *)
Wrappers == {"plain", "json", "bare", "json-open", "bare-open", "json-prose"}

Wrap(w, text) ==
    CASE w = "plain" -> text
      [] w = "json" -> <<Fence, JsonTag, Ws>> \o text \o <<Ws, Fence>>
      [] w = "bare" -> <<Fence, Ws>> \o text \o <<Ws, Fence>>
      [] w = "json-open" -> <<Fence, JsonTag, Ws>> \o text
      [] w = "bare-open" -> <<Fence, Ws>> \o text
      [] w = "json-prose" ->
            <<Prose, Ws, Fence, JsonTag, Ws>> \o text \o <<Ws, Fence, Ws, Prose>>

NonArrayTypes == {"object", "number", "string", "null"}

(* the texts the service may return: a bare JSON array, an array inside a *)
(* closed or an unclosed fence, text that is no JSON, JSON that is no      *)
(* array, and no content at all                                            *)
Responses ==
    { Serialize(Json("array", a)) : a \in GeneratedArrays \cup SpecialArrays }
    \cup { Wrap(w, Serialize(Json("array", a))) :
             w \in {"json", "bare", "json-open", "bare-open"},
             a \in {TestArray, MixedRankArray} }
    \cup { <<Prose>> }
    \cup { Serialize(Json(t, <<>>)) : t \in NonArrayTypes }
    \cup { NoneText }

NoResponse == NoneText
NoPool == [cols |-> {}, rows |-> <<>>]

----------------------------------------------------------------------------
(* GroqEngine.__init__ and GroqEngine.generate_recommendations *)

(* no direct parse_response call is under way *)
NoParse == [status |-> "none", data |-> <<>>]
ParserOff == ptext = NoneText /\ pout = NoParse /\ ppc = "off"

(* the engine at position p, before any invocation *)
EngineAt(p) ==
    /\ pc = p
    /\ apiKey = FALSE
    /\ client = FALSE
    /\ pool = NoPool
    /\ topK = DefaultTopK
    /\ context = <<>>
    /\ response = NoResponse
    /\ recs = <<>>
    /\ fbK = 0
    /\ result = <<>>
    /\ raised = FALSE
    /\ calls = 0
    /\ outcome = "none"
    /\ trace = <<>>

(* no request is under way and the service is not part of the run *)
NoCatalog == [cols |-> {"None"}, rows |-> <<>>]
NoFrame == [cols |-> {}, rows |-> <<>>]
NoCriteria == [city |-> <<>>, price |-> 0]
NoHttp == [status |-> 0, count |-> NaN, recommendations |-> <<>>]

ServiceAt(p) ==
    /\ catalog = NoCatalog
    /\ criteria = NoCriteria
    /\ byCity = NoFrame
    /\ subset = NoFrame
    /\ scored = NoFrame
    /\ dpool = NoFrame
    /\ http = NoHttp
    /\ draised = FALSE
    /\ dpc = p

(* no concurrent requests are part of the run *)
SharedOff == store = NoCatalog /\ asLoaded = NoCatalog /\ reqs = <<>>

Init == EngineAt("new") /\ ParserOff /\ ServiceAt("off") /\ SharedOff

(* __init__: the key comes from the argument or the environment; the      *)
(* client exists when there is a key and Groq(...) did not raise.          *)
EngineInit ==
    /\ UNCHANGED nonRankVars
    /\ pc = "new"
    /\ \E key \in BOOLEAN, ctorOk \in BOOLEAN :
          /\ apiKey' = key
          /\ client' = (key /\ ctorOk)
    /\ pc' = "idle"
    /\ UNCHANGED <<pool, topK, context, response, recs, fbK, result, raised,
                   calls, outcome, trace>>

(* a caller invokes generate_recommendations(filtered_df, user_input, top_k) *)
Invoke ==
    /\ UNCHANGED nonRankVars
    /\ pc = "idle"
    /\ \E df \in Pools, k \in TopKs :
          /\ pool' = df
          /\ topK' = k
    /\ pc' = "init"
    /\ context' = <<>>
    /\ response' = NoResponse
    /\ recs' = <<>>
    /\ fbK' = 0
    /\ result' = <<>>
    /\ raised' = FALSE
    /\ calls' = 0
    /\ outcome' = "none"
    /\ trace' = <<>>
    /\ UNCHANGED <<apiKey, client>>

(* DataFrame.empty *)
Empty(df) == df.rows = <<>> \/ df.cols = {}

(* the bug of not testing self.client *)
UseLLMWithoutClientCheck(cl, df) == ~Empty(df)

(* line 39: the LLM path is taken with a client and a non-empty pool *)
UseLLM(cl, df) == cl /\ ~Empty(df)

(* the bug of a try block that starts after the call *)
InTryAfterCall(step) == step \in {"parse", "mergefallback"}

(* lines 40-72: the statements a raised exception is caught from *)
InTry(step) == step \in {"context", "llmcall", "parse", "mergefallback"}

(* the bug of a handler that calls the service again *)
OnExceptionRetry == "llmcall"

(* the bug of a handler that goes on to parse the response *)
OnExceptionParse == "parse"

(* line 71: where the handler continues *)
OnException == "fallback"

RankInit ==
    /\ UNCHANGED nonRankVars
    /\ pc = "init"
    /\ IF UseLLM(client, pool)
       THEN pc' = "context" /\ fbK' = fbK
       ELSE pc' = "fallback" /\ fbK' = topK
    /\ trace' = Append(trace, "Init")
    /\ UNCHANGED <<apiKey, client, pool, topK, context, response, recs, result,
                   raised, calls, outcome>>

ContextBuild ==
    /\ UNCHANGED nonRankVars
    /\ pc = "context"
    /\ context' = PrepareContext(pool, MaxItems)
    /\ pc' = "llmcall"
    /\ trace' = Append(trace, "ContextBuild")
    /\ UNCHANGED <<apiKey, client, pool, topK, response, recs, fbK, result,
                   raised, calls, outcome>>

(* an exception raised at step: caught inside the try block, else it      *)
(* leaves the function                                                     *)
Raise(step) ==
    IF InTry(step)
    THEN /\ pc' = OnException
         /\ fbK' = topK
         /\ raised' = raised
    ELSE /\ pc' = "done"
         /\ fbK' = fbK
         /\ raised' = TRUE

LLMCall ==
    /\ UNCHANGED nonRankVars
    /\ pc = "llmcall"
    /\ calls' = calls + 1
    /\ trace' = Append(trace, "LLMCall")
    /\ \E threw \in BOOLEAN :
          IF threw
          THEN /\ Raise("llmcall")
               /\ response' = response
               /\ outcome' = "threw"
          ELSE /\ \E text \in Responses : response' = text
               /\ outcome' = "returned"
               /\ pc' = "parse"
               /\ UNCHANGED <<fbK, raised>>
    /\ UNCHANGED <<apiKey, client, pool, topK, context, recs, result>>

(* line 64: parse_response on each text the service may return *)
ParsedOf == [text \in Responses |-> ParseResponse(text)]

ParseAndMerge ==
    /\ UNCHANGED nonRankVars
    /\ pc = "parse"
    /\ trace' = Append(trace, "ParseAndMerge")
    /\ LET parsed == ParsedOf[response]
           recommendations_data == parsed.data
       IN  /\ recs' = recommendations_data
           /\ IF parsed.status = "raise"
              THEN /\ Raise("parse")
                   /\ result' = result
              ELSE IF recommendations_data # <<>>
              THEN LET m == MergeRecommendations(pool, recommendations_data)
                   IN  IF m.status = "ok"
                       THEN /\ result' = m.rows
                            /\ pc' = "return"
                            /\ UNCHANGED <<fbK, raised>>
                       ELSE IF m.status = "fallback"
                            THEN /\ pc' = "mergefallback"
                                 /\ fbK' = MergeFallbackK
                                 /\ UNCHANGED <<result, raised>>
                            ELSE /\ Raise("parse")
                                 /\ result' = result
              ELSE /\ pc' = "fallback"
                   /\ fbK' = topK
                   /\ UNCHANGED <<result, raised>>
    /\ UNCHANGED <<apiKey, client, pool, topK, context, response, calls, outcome>>

(* line 75, and line 110 when the merge matched nothing ("mergefallback") *)
FallbackRank ==
    /\ UNCHANGED nonRankVars
    /\ pc \in {"fallback", "mergefallback"}
    /\ trace' = Append(trace, "FallbackRank")
    /\ \E f \in FallbackRanking(pool, fbK) :
           IF f.status = "ok"
           THEN /\ result' = f.rows
                /\ pc' = "return"
                /\ UNCHANGED <<fbK, raised>>
           ELSE /\ Raise(pc)
                /\ result' = result
    /\ UNCHANGED <<apiKey, client, pool, topK, context, response, recs, calls,
                   outcome>>

Done ==
    /\ UNCHANGED nonRankVars
    /\ pc = "return"
    /\ pc' = "done"
    /\ trace' = Append(trace, "Done")
    /\ UNCHANGED <<apiKey, client, pool, topK, context, response, recs, fbK,
                   result, raised, calls, outcome>>

Next ==
    \/ EngineInit
    \/ Invoke
    \/ RankInit
    \/ ContextBuild
    \/ LLMCall
    \/ ParseAndMerge
    \/ FallbackRank
    \/ Done

Spec == Init /\ [][Next]_vars

(* the invocation as the interpreter runs it: a statement that can run    *)
(* does run, and completions.create eventually returns or raises.  When    *)
(* the engine is built and when it is invoked is up to the caller.         *)
(* ParseAndMerge is enabled exactly when pc = "parse" and every step of it *)
(* leaves that position, so its weak fairness is written as the            *)
(* equivalent []<>(pc # "parse").                                          *)
SpecFair ==
    /\ Init
    /\ [][Next]_vars
    /\ WF_vars(RankInit)
    /\ WF_vars(ContextBuild)
    /\ WF_vars(LLMCall)
    /\ []<>(pc # "parse")
    /\ WF_vars(FallbackRank)
    /\ WF_vars(Done)

----------------------------------------------------------------------------
(* ResponseParser.parse_response called on its own, as the tests do *)

(* decision lists whose reason texts contain fence markers *)
FencedReasonArrays ==
    { << Decision(<<Taj>>, <<1>>, <<"Try the '''masala''' dosa">>) >>,
      << Decision(<<Taj>>, <<1>>, <<"Ask for '''extra spicy">>) >>,
      << Decision(<<Taj>>, <<1>>, <<"Ask for '''extra spicy">>),
         Decision(<<KFC>>, <<2>>, <<"Ask for '''extra spicy">>) >> }

ParserArrays == GeneratedArrays \cup SpecialArrays \cup FencedReasonArrays

ParserDocs ==
    { Json("array", a) : a \in ParserArrays }
    \cup { Json(t, <<>>) : t \in NonArrayTypes }

(* the texts parse_response is called with: every document as it is and  *)
(* in every wrapper, cut-off documents, prose, blank and empty text, and   *)
(* None                                                                    *)
ParserTexts ==
    { Wrap(w, Serialize(d)) : w \in Wrappers, d \in ParserDocs }
    \cup { Wrap(w, <<Truncated(Json("array", a))>>) :
             w \in Wrappers, a \in {TestArray, MixedRankArray} }
    \cup { <<Prose>>, <<Ws>>, <<>>, NoneText }

InitParser ==
    /\ EngineAt("off")
    /\ ptext \in ParserTexts
    /\ pout = NoParse
    /\ ppc = "ready"
    /\ ServiceAt("off")
    /\ SharedOff

ParseCall ==
    /\ ppc = "ready"
    /\ pout' = ParseResponse(ptext)
    /\ ppc' = "parsed"
    /\ UNCHANGED <<ptext, rankVars, dataVars, sharedVars>>

NextParser == ParseCall

SpecParser == InitParser /\ [][NextParser]_vars

----------------------------------------------------------------------------
(* phase3: DataFilter, FeatureEngineer, DataIntegrator                     *)
(* A catalog row is [idx, name, city, location, rate, votes, price,        *)
(* cuisines, rest_type, dish_liked]; the two locality fields and the three *)
(* descriptive fields are sequences of length 0 (missing) or 1, the        *)
(* numbers are NaN when missing.  Ratings are kept times 10, prices in     *)
(* hundreds of rupees.  A score is the fraction [n, d].                    *)

(* lines 41-47: the mask of filter_by_city, with the names compared as    *)
(* written (the bug of leaving out str.lower)                              *)
CityMaskExactCase(df, r, city) ==
    \/ "city" \in df.cols /\ r.city # <<>> /\ r.city[1] = city
    \/ "location" \in df.cols /\ r.location # <<>> /\ r.location[1] = city

(* lines 39-47: the mask of filter_by_city *)
CityMask(df, r, city) ==
    LET city_lower == Lower(city)
    IN  \/ "city" \in df.cols /\ r.city # <<>> /\ Lower(r.city[1]) = city_lower
        \/ "location" \in df.cols /\ r.location # <<>>
              /\ Lower(r.location[1]) = city_lower

filter_by_city(df, city) ==
    [cols |-> df.cols, rows |-> SelectSeq(df.rows, LAMBDA r : CityMask(df, r, city))]

(* the bug of keeping the rows at or above the price *)
PriceMaskAtLeast(r, max_price) == r.price # NaN /\ r.price >= max_price

(* the bug of keeping the rows without a price *)
PriceMaskKeepsMissing(r, max_price) == r.price = NaN \/ r.price <= max_price

(* line 72: price.notna() & (price <= max_price) *)
PriceMask(r, max_price) == r.price # NaN /\ r.price <= max_price

filter_by_price(df, max_price) ==
    IF "price" \notin df.cols
    THEN df
    ELSE [cols |-> df.cols,
          rows |-> SelectSeq(df.rows, LAMBDA r : PriceMask(r, max_price))]

apply_filters(df, city, max_price) ==
    filter_by_price(filter_by_city(df, city), max_price)

(* the values present in a column *)
ColValues(rows, c) == {rows[i][c] : i \in 1..Len(rows)} \ {NaN}

(* the bug of normalizing by the smallest value *)
ColMin(rows, c) ==
    IF ColValues(rows, c) = {} THEN NaN
    ELSE CHOOSE x \in ColValues(rows, c) : \A y \in ColValues(rows, c) : x <= y

(* Series.max: over the values present, NaN when none is *)
ColMax(rows, c) ==
    IF ColValues(rows, c) = {} THEN NaN
    ELSE CHOOSE x \in ColValues(rows, c) : \A y \in ColValues(rows, c) : x >= y

FillNa(v, d) == IF v = NaN THEN d ELSE v

(* numpy.log1p, times 100 and rounded, on the vote counts of the model *)
Log1p(v) ==
    CASE v = 0 -> 0
      [] v = 50 -> 393
      [] v = 100 -> 462
      [] v = 150 -> 502
      [] v = 200 -> 530

Frac(n, d) == [n |-> n, d |-> d]
Half == Frac(1, 2)

(* 5.0, the divisor when the largest rating is not positive *)
FiveStars == 50

(* the weights of the combined score, in tenths *)
WeightRating == 4
WeightPopularity == 3
WeightPrice == 2
WeightCompleteness == 1

CompletenessCols == <<"rate", "votes", "price", "cuisines", "rest_type", "dish_liked">>

(* notna() of one cell *)
NotNa(r, c) ==
    IF c \in {"rate", "votes", "price"} THEN r[c] # NaN ELSE r[c] # <<>>

(* the bug of giving the neutral default to each row without a rating *)
RatingScoreDefaultPerRow(df, r) ==
    IF "rate" \in df.cols /\ r.rate # NaN
    THEN LET max_rate == IF ColMax(df.rows, "rate") # NaN /\ ColMax(df.rows, "rate") > 0
                         THEN ColMax(df.rows, "rate") ELSE FiveStars
         IN  Frac(r.rate, max_rate)
    ELSE Half

(* lines 114-118 *)
RatingScore(df, r) ==
    IF "rate" \in df.cols
    THEN LET max_rate == IF ColMax(df.rows, "rate") # NaN /\ ColMax(df.rows, "rate") > 0
                         THEN ColMax(df.rows, "rate") ELSE FiveStars
         IN  Frac(FillNa(r.rate, 0), max_rate)
    ELSE Half

(* lines 121-127 *)
PopularityScore(df, r) ==
    IF "votes" \in df.cols
    THEN LET logs == [i \in 1..Len(df.rows) |-> Log1p(FillNa(df.rows[i].votes, 0))]
             max_pop == CHOOSE x \in {logs[i] : i \in 1..Len(logs)} :
                           \A i \in 1..Len(logs) : x >= logs[i]
         IN  IF max_pop > 0
             THEN Frac(Log1p(FillNa(r.votes, 0)), max_pop)
             ELSE Frac(Log1p(FillNa(r.votes, 0)), 1)
    ELSE Half

(* lines 130-137 *)
PriceScore(df, r) ==
    IF "price" \in df.cols
    THEN LET max_price == ColMax(df.rows, "price")
         IN  IF max_price # NaN /\ max_price > 0
             THEN Frac(max_price - FillNa(r.price, max_price), max_price)
             ELSE Half
    ELSE Half

(* lines 140-146 *)
CompletenessScore(df, r) ==
    LET available_cols == SelectSeq(CompletenessCols, LAMBDA c : c \in df.cols)
    IN  IF available_cols # <<>>
        THEN Frac(Cardinality({i \in 1..Len(available_cols) : NotNa(r, available_cols[i])}),
                  Len(available_cols))
        ELSE Half

(* lines 149-154: the weighted sum, over the product of the denominators *)
Combined(rs, ps, qs, cs) ==
    Frac(WeightRating * rs.n * ps.d * qs.d * cs.d
           + WeightPopularity * ps.n * rs.d * qs.d * cs.d
           + WeightPrice * qs.n * rs.d * ps.d * cs.d
           + WeightCompleteness * cs.n * rs.d * ps.d * qs.d,
         10 * rs.d * ps.d * qs.d * cs.d)

ScoreCols ==
    {"rating_score", "popularity_score", "price_score", "completeness_score",
     "recommendation_score"}

Scored(r, rs, ps, qs, cs) ==
    [idx |-> r.idx, name |-> r.name, city |-> r.city, location |-> r.location,
     rate |-> r.rate, votes |-> r.votes, price |-> r.price,
     cuisines |-> r.cuisines, rest_type |-> r.rest_type, dish_liked |-> r.dish_liked,
     rating_score |-> rs, popularity_score |-> ps, price_score |-> qs,
     completeness_score |-> cs, recommendation_score |-> Combined(rs, ps, qs, cs)]

engineer_features(df) ==
    [cols |-> df.cols \cup ScoreCols,
     rows |-> [i \in 1..Len(df.rows) |->
                 Scored(df.rows[i], RatingScore(df, df.rows[i]),
                        PopularityScore(df, df.rows[i]), PriceScore(df, df.rows[i]),
                        CompletenessScore(df, df.rows[i]))]]

(* the bug of keeping the last row of each (name, location) pair *)
DropDuplicatesKeepLast(rows) ==
    LET Kept(i) == \A j \in (i + 1)..Len(rows) :
                      <<rows[j].name, rows[j].location>> # <<rows[i].name, rows[i].location>>
        Count(i) == Cardinality({j \in 1..i : Kept(j)})
        n == Count(Len(rows))
    IN  [k \in 1..n |-> rows[CHOOSE i \in 1..Len(rows) : Kept(i) /\ Count(i) = k]]

(* line 202: drop_duplicates(subset=['name', 'location'], keep='first') *)
RECURSIVE DropDuplicatesFrom(_, _)
DropDuplicatesFrom(rows, i) ==
    IF i > Len(rows) THEN <<>>
    ELSE (IF \A j \in 1..(i - 1) :
                <<rows[j].name, rows[j].location>> # <<rows[i].name, rows[i].location>>
          THEN <<rows[i]>> ELSE <<>>) \o DropDuplicatesFrom(rows, i + 1)

DropDuplicates(rows) == DropDuplicatesFrom(rows, 1)

(* line 205: sort_values('recommendation_score', ascending=False), a sort *)
(* over one column: rows with equal score may come out in any order.  The  *)
(* scores of one frame have the same denominator.                          *)
SortByScore(rows) ==
    { s \in Reorderings(rows) :
        \A i, j \in 1..Len(s) :
           i < j => s[i].recommendation_score.n >= s[j].recommendation_score.n }

(* the bug of going on with an empty selection *)
EarlyReturnNever(filtered) == FALSE

(* line 194: len(filtered) == 0 *)
EarlyReturn(filtered) == Len(filtered.rows) = 0

----------------------------------------------------------------------------
(* Inputs of the service: the catalogs and the criteria *)

MaxCatalog == 2

Banashankari == <<"B","a","n","a","s","h","a","n","k","a","r","i">>
BANASHANKARI == <<"B","A","N","A","S","H","A","N","K","A","R","I">>
Basavanagudi == <<"B","a","s","a","v","a","n","a","g","u","d","i">>
Koramangala == <<"K","o","r","a","m","a","n","g","a","l","a">>
Mysore == <<"M","y","s","o","r","e">>

RestaurantA == <<"R","e","s","t","a","u","r","a","n","t"," ","A">>
RestaurantB == <<"R","e","s","t","a","u","r","a","n","t"," ","B">>
RestaurantC == <<"R","e","s","t","a","u","r","a","n","t"," ","C">>
RestaurantD == <<"R","e","s","t","a","u","r","a","n","t"," ","D">>
RestaurantE == <<"R","e","s","t","a","u","r","a","n","t"," ","E">>

AllCols ==
    {"name", "city", "location", "rate", "votes", "price",
     "cuisines", "rest_type", "dish_liked"}

CRow(name, city, location, rate, votes, price, cuisines, rest_type, dish_liked) ==
    [idx |-> 0, name |-> name, city |-> city, location |-> location,
     rate |-> rate, votes |-> votes, price |-> price,
     cuisines |-> cuisines, rest_type |-> rest_type, dish_liked |-> dish_liked]

(* the rows the generated catalogs are made of: the two locality fields   *)
(* equal, different or missing, in several spellings; rating, votes and    *)
(* price present, zero or missing; one (name, location) pair twice         *)
RowTemplates ==
    << CRow(Taj, <<Banashankari>>, <<Banashankari>>, 45, 100, 8,
            <<"North Indian">>, <<"Casual Dining">>, <<"Biryani">>),
       CRow(KFC, <<Lower(Banashankari)>>, <<Basavanagudi>>, 40, 200, 6,
            <<"Fast Food">>, <<"Quick Bites">>, <<>>),
       CRow(Dominos, <<Basavanagudi>>, <<BANASHANKARI>>, 40, 50, 7,
            <<"Pizza">>, <<>>, <<>>),
       CRow(PizzaHut, <<Banashankari>>, <<Banashankari>>, NaN, NaN, NaN,
            <<>>, <<>>, <<>>),
       CRow(BurgerKing, <<>>, <<Basavanagudi>>, 0, 0, 0,
            <<"Burger">>, <<"Quick Bites">>, <<"Whopper">>),
       CRow(Taj, <<Banashankari>>, <<Banashankari>>, 40, 150, 10,
            <<"North Indian">>, <<>>, <<>>) >>

(* the column sets of the catalogs: all columns, one of price, city and   *)
(* location missing, and the columns of the test frames                    *)
ColSets ==
    { AllCols,
      AllCols \ {"price"},
      AllCols \ {"city"},
      AllCols \ {"location"},
      {"name", "city", "location", "price"},
      {"name", "city", "location"} }

(* a row as a frame with these columns holds it, at position i *)
Project(r, cols, i) ==
    [idx |-> i, name |-> r.name,
     city |-> IF "city" \in cols THEN r.city ELSE <<>>,
     location |-> IF "location" \in cols THEN r.location ELSE <<>>,
     rate |-> IF "rate" \in cols THEN r.rate ELSE NaN,
     votes |-> IF "votes" \in cols THEN r.votes ELSE NaN,
     price |-> IF "price" \in cols THEN r.price ELSE NaN,
     cuisines |-> IF "cuisines" \in cols THEN r.cuisines ELSE <<>>,
     rest_type |-> IF "rest_type" \in cols THEN r.rest_type ELSE <<>>,
     dish_liked |-> IF "dish_liked" \in cols THEN r.dish_liked ELSE <<>>]

Frame(cols, rows) ==
    [cols |-> cols, rows |-> [i \in 1..Len(rows) |-> Project(rows[i], cols, i)]]

GeneratedCatalogs ==
    UNION { { Frame(cols, [i \in 1..n |-> RowTemplates[f[i]]]) :
                f \in [1..n -> 1..Len(RowTemplates)], cols \in ColSets } :
            n \in 0..MaxCatalog }

(* sample_df of TestDataFilter *)
FilterTestCatalog ==
    Frame({"name", "city", "location", "price"},
          << CRow(RestaurantA, <<Banashankari>>, <<Banashankari>>, NaN, NaN, 8, <<>>, <<>>, <<>>),
             CRow(RestaurantB, <<Basavanagudi>>, <<Basavanagudi>>, NaN, NaN, 10, <<>>, <<>>, <<>>),
             CRow(RestaurantC, <<Banashankari>>, <<Banashankari>>, NaN, NaN, 6, <<>>, <<>>, <<>>),
             CRow(RestaurantD, <<Koramangala>>, <<Koramangala>>, NaN, NaN, 12, <<>>, <<>>, <<>>),
             CRow(RestaurantE, <<Banashankari>>, <<Banashankari>>, NaN, NaN, 7, <<>>, <<>>, <<>>) >>)

(* sample_df of TestDataIntegrator *)
IntegratorTestCatalog ==
    Frame({"name", "city", "location", "rate", "votes", "price"},
          << CRow(RestaurantA, <<Banashankari>>, <<Banashankari>>, 45, 100, 8, <<>>, <<>>, <<>>),
             CRow(RestaurantB, <<Banashankari>>, <<Banashankari>>, 40, 200, 10, <<>>, <<>>, <<>>),
             CRow(RestaurantC, <<Basavanagudi>>, <<Basavanagudi>>, 38, 50, 6, <<>>, <<>>, <<>>),
             CRow(RestaurantD, <<Banashankari>>, <<Banashankari>>, 42, 150, 7, <<>>, <<>>, <<>>) >>)

Catalogs == GeneratedCatalogs \cup {FilterTestCatalog, IntegratorTestCatalog}

CriteriaCities ==
    {Banashankari, Lower(Banashankari), BANASHANKARI, Basavanagudi, Mysore}
CriteriaPrices == {5, 8, 10}
Criteria == [city : CriteriaCities, price : CriteriaPrices]

----------------------------------------------------------------------------
(* The service: load_resources, POST /api/recommend and the steps of       *)
(* DataIntegrator.integrate it runs                                        *)

InitData == EngineAt("off") /\ ParserOff /\ ServiceAt("down") /\ SharedOff

(* load_resources: the catalog is read from the pickle or the csv file,   *)
(* or stays None when neither exists                                       *)
Startup ==
    /\ dpc = "down"
    /\ catalog' \in Catalogs \cup {NoCatalog}
    /\ dpc' = "up"
    /\ UNCHANGED <<criteria, byCity, subset, scored, dpool, http, draised>>
    /\ UNCHANGED <<rankVars, parserVars, sharedVars>>

(* an exception inside the try of recommend: lines 158-160 answer 500 *)
ServerError == [status |-> 500, count |-> NaN, recommendations |-> <<>>]

(* recommend, lines 91-96: the request arrives *)
Recommend ==
    /\ dpc = "up"
    /\ \E c \in Criteria : criteria' = c
    /\ IF catalog = NoCatalog
       THEN /\ http' = ServerError
            /\ dpc' = "answered"
       ELSE /\ http' = http
            /\ dpc' = "city"
    /\ UNCHANGED <<catalog, byCity, subset, scored, dpool, draised>>
    /\ UNCHANGED <<rankVars, parserVars, sharedVars>>

(* apply_filters, line 90 *)
FilterByCity ==
    /\ dpc = "city"
    /\ byCity' = filter_by_city(catalog, criteria.city)
    /\ dpc' = "price"
    /\ UNCHANGED <<catalog, criteria, subset, scored, dpool, http, draised>>
    /\ UNCHANGED <<rankVars, parserVars, sharedVars>>

(* apply_filters, line 91, and integrate, lines 194-196 *)
FilterByPrice ==
    /\ dpc = "price"
    /\ LET filtered == filter_by_price(byCity, criteria.price)
       IN  /\ subset' = filtered
           /\ IF EarlyReturn(filtered)
              THEN dpool' = filtered /\ dpc' = "respond"
              ELSE dpool' = dpool /\ dpc' = "score"
    /\ UNCHANGED <<catalog, criteria, byCity, scored, http, draised>>
    /\ UNCHANGED <<rankVars, parserVars, sharedVars>>

(* integrate, line 199 *)
EngineerFeatures ==
    /\ dpc = "score"
    /\ scored' = engineer_features(subset)
    /\ dpc' = "dedup"
    /\ UNCHANGED <<catalog, criteria, byCity, subset, dpool, http, draised>>
    /\ UNCHANGED <<rankVars, parserVars, sharedVars>>

(* integrate, lines 202-209; drop_duplicates raises KeyError when a key   *)
(* column is missing, which recommend answers with 500                     *)
DedupAndSort ==
    /\ dpc = "dedup"
    /\ IF {"name", "location"} \subseteq scored.cols
       THEN /\ \E sorted \in SortByScore(DropDuplicates(scored.rows)) :
                  dpool' = [cols |-> scored.cols, rows |-> sorted]
            /\ dpc' = "respond"
            /\ UNCHANGED <<http, draised>>
       ELSE /\ draised' = TRUE
            /\ http' = ServerError
            /\ dpc' = "answered"
            /\ dpool' = dpool
    /\ UNCHANGED <<catalog, criteria, byCity, subset, scored>>
    /\ UNCHANGED <<rankVars, parserVars, sharedVars>>

(* FeatureEngineer.engineer_features called on its own, on a whole frame, *)
(* as the tests do                                                         *)
ScoreDirect ==
    /\ dpc = "up"
    /\ catalog # NoCatalog
    /\ scored' = engineer_features(catalog)
    /\ dpc' = "scored"
    /\ UNCHANGED <<catalog, criteria, byCity, subset, dpool, http, draised>>
    /\ UNCHANGED <<rankVars, parserVars, sharedVars>>

(* get_cities, raising outside any try block: the HTTPException reaches   *)
(* the client as it is                                                     *)
ServiceUnavailable == [status |-> 503, count |-> NaN, recommendations |-> <<>>]

(* GET /api/cities, lines 76-83: 503 when the catalog is not loaded, else *)
(* the number of distinct cities; a catalog without a city column raises   *)
(* KeyError, which nothing catches                                         *)
GetCities ==
    /\ dpc = "up"
    /\ http' = IF catalog = NoCatalog
               THEN ServiceUnavailable
               ELSE IF "city" \notin catalog.cols
                    THEN ServerError
                    ELSE [status |-> 200,
                          count |-> Cardinality({catalog.rows[i].city :
                                                   i \in 1..Len(catalog.rows)} \ {<<>>}),
                          recommendations |-> <<>>]
    /\ dpc' = "cities"
    /\ UNCHANGED <<catalog, criteria, byCity, subset, scored, dpool, draised>>
    /\ UNCHANGED <<rankVars, parserVars, sharedVars>>

(* recommend, lines 98-108: an empty pool is answered at once, any other  *)
(* pool goes to GroqEngine.generate_recommendations                        *)
Respond ==
    /\ dpc = "respond"
    /\ IF Len(dpool.rows) = 0
       THEN /\ http' = [status |-> 200, count |-> 0, recommendations |-> <<>>]
            /\ dpc' = "answered"
       ELSE /\ http' = http
            /\ dpc' = "rank"
    /\ UNCHANGED <<catalog, criteria, byCity, subset, scored, dpool, draised>>
    /\ UNCHANGED <<rankVars, parserVars, sharedVars>>

NextData ==
    \/ Startup
    \/ Recommend
    \/ FilterByCity
    \/ FilterByPrice
    \/ EngineerFeatures
    \/ DedupAndSort
    \/ Respond
    \/ ScoreDirect
    \/ GetCities

SpecData == InitData /\ [][NextData]_vars

----------------------------------------------------------------------------
(* Requests of POST /api/recommend running concurrently over the one       *)
(* ServiceContainer.df.  Each request has its own DataIntegrator, frames   *)
(* and GroqEngine; the steps of different requests interleave in any       *)
(* order.  A call is given the frame it works on and leaves the caller a   *)
(* frame: what the caller's frame holds after the call is part of the      *)
(* step.                                                                   *)

MaxRequests == 2

(* the catalogs of the concurrent runs: sample_df of TestDataIntegrator,  *)
(* a catalog with one (name, location) pair twice and a catalog without    *)
(* rating and votes                                                        *)
SharedCatalogs ==
    { IntegratorTestCatalog,
      Frame(AllCols, <<RowTemplates[6], RowTemplates[1], RowTemplates[2]>>),
      FilterTestCatalog }

SharedCriteria ==
    { [city |-> Banashankari, price |-> 8],
      [city |-> Lower(Banashankari), price |-> 10],
      [city |-> Mysore, price |-> 10] }

(* what the completions.create call of a request does: it raises or it   *)
(* returns a text (the engine of every request has a client)               *)
SharedOutcomes ==
    { [kind |-> "threw", text |-> NoneText],
      [kind |-> "returned",
       text |-> Serialize(Json("array",
                  << Decision(<<Lower(RestaurantB)>>, <<2>>, <<"Great food">>),
                     Decision(<<Taj>>, <<1>>, <<"Great food">>) >>))] }

IdleRequest ==
    [pc |-> "idle", criteria |-> NoCriteria,
     outcome |-> [kind |-> "none", text |-> NoneText],
     filtered |-> NoFrame, enhanced |-> NoFrame, pool |-> NoFrame,
     given |-> NoFrame, held |-> NoFrame, result |-> <<>>, status |-> 0]

(* the bug of filtering self.df itself: the shared frame loses the rows *)
FilterLeavesFiltered(df, filtered) == [cols |-> df.cols, rows |-> filtered.rows]

(* lines 50 and 73: the rows are selected by a mask and copied; self.df   *)
(* is only read                                                            *)
FilterLeaves(df, filtered) == df

(* line 112: df = df.copy(); the score columns are assigned to the copy *)
EngineerLeaves(df, enhanced) == df

(* the columns of a row the engine reads, sorts by and returns *)
AsPool(df) ==
    [cols |-> df.cols \cap PoolCols,
     rows |-> [i \in 1..Len(df.rows) |->
                 Row(df.rows[i].idx, df.rows[i].name, df.rows[i].rate,
                     df.rows[i].votes, df.rows[i].price)]]

(* the frames generate_recommendations may return, with a client or       *)
(* without and with the outcome o of the completions.create call           *)
RankCall(df, top_k, o) ==
    LET Fallback(k) == { f.rows : f \in FallbackRanking(df, k) }
    IN  IF ~UseLLM(o.kind # "noclient", df) \/ o.kind = "threw"
        THEN Fallback(top_k)
        ELSE LET parsed == ParseResponse(o.text)
             IN  IF parsed.status = "raise" \/ parsed.data = <<>>
                 THEN Fallback(top_k)
                 ELSE LET m == MergeRecommendations(df, parsed.data)
                      IN  IF m.status = "ok"
                          THEN {m.rows}
                          ELSE IF m.status = "fallback"
                               THEN Fallback(MergeFallbackK)
                               ELSE Fallback(top_k)

(* the bug of sorting and annotating the caller's frame itself: the pool  *)
(* gets the reason column                                                  *)
RankLeavesReason(df, rows) ==
    [cols |-> df.cols \cup {"reason"},
     rows |-> [i \in 1..Len(df.rows) |-> WithReason(df.rows[i], FallbackReason, <<>>)]]

(* engine.py lines 97 and 121: the matched row and the frame to sort are  *)
(* copies; prepare_context only reads                                      *)
RankLeaves(df, rows) == df

InitShared ==
    /\ EngineAt("off") /\ ParserOff /\ ServiceAt("off")
    /\ store = NoCatalog
    /\ asLoaded = NoCatalog
    /\ reqs = [i \in 1..MaxRequests |-> IdleRequest]

(* load_resources, at startup and before any request is served *)
LoadResources ==
    /\ store = NoCatalog
    /\ \E c \in SharedCatalogs : store' = c /\ asLoaded' = c
    /\ UNCHANGED <<reqs, rankVars, parserVars, dataVars>>

(* recommend, lines 91-96: request i arrives *)
Arrive(i) ==
    /\ store # NoCatalog
    /\ reqs[i].pc = "idle"
    /\ \E c \in SharedCriteria, o \in SharedOutcomes :
          reqs' = [reqs EXCEPT ![i].criteria = c, ![i].outcome = o, ![i].pc = "filter"]
    /\ UNCHANGED <<store, asLoaded, rankVars, parserVars, dataVars>>

(* integrate, lines 189-196: apply_filters and the early return *)
ApplyFilters(i) ==
    /\ reqs[i].pc = "filter"
    /\ LET filtered == apply_filters(store, reqs[i].criteria.city, reqs[i].criteria.price)
       IN  /\ store' = FilterLeaves(store, filtered)
           /\ reqs' = [reqs EXCEPT
                         ![i].filtered = filtered,
                         ![i].pool = IF EarlyReturn(filtered) THEN filtered ELSE @,
                         ![i].pc = IF EarlyReturn(filtered) THEN "respond" ELSE "score"]
    /\ UNCHANGED <<asLoaded, rankVars, parserVars, dataVars>>

(* integrate, line 199 *)
Enhance(i) ==
    /\ reqs[i].pc = "score"
    /\ LET enhanced == engineer_features(reqs[i].filtered)
       IN  reqs' = [reqs EXCEPT
                      ![i].enhanced = enhanced,
                      ![i].filtered = EngineerLeaves(@, enhanced),
                      ![i].pc = "dedup"]
    /\ UNCHANGED <<store, asLoaded, rankVars, parserVars, dataVars>>

(* integrate, lines 202-209; the catalogs of these runs have the name     *)
(* and location columns                                                    *)
Integrate(i) ==
    /\ reqs[i].pc = "dedup"
    /\ \E sorted \in SortByScore(DropDuplicates(reqs[i].enhanced.rows)) :
          reqs' = [reqs EXCEPT
                     ![i].pool = [cols |-> reqs[i].enhanced.cols, rows |-> sorted],
                     ![i].pc = "respond"]
    /\ UNCHANGED <<store, asLoaded, rankVars, parserVars, dataVars>>

(* recommend, lines 98-113 and 148-152: an empty pool is answered at      *)
(* once, any other pool is passed to generate_recommendations with         *)
(* top_k=10                                                                *)
RankAndAnswer(i) ==
    /\ reqs[i].pc = "respond"
    /\ IF Len(reqs[i].pool.rows) = 0
       THEN reqs' = [reqs EXCEPT ![i].status = 200, ![i].pc = "answered"]
       ELSE \E rows \in RankCall(AsPool(reqs[i].pool), DefaultTopK, reqs[i].outcome) :
               reqs' = [reqs EXCEPT
                          ![i].given = AsPool(reqs[i].pool),
                          ![i].held = RankLeaves(AsPool(reqs[i].pool), rows),
                          ![i].result = rows,
                          ![i].status = 200,
                          ![i].pc = "answered"]
    /\ UNCHANGED <<store, asLoaded, rankVars, parserVars, dataVars>>

Request(i) ==
    \/ Arrive(i)
    \/ ApplyFilters(i)
    \/ Enhance(i)
    \/ Integrate(i)
    \/ RankAndAnswer(i)

NextShared ==
    \/ LoadResources
    \/ \E i \in 1..MaxRequests : Request(i)

SpecShared == InitShared /\ [][NextShared]_vars

----------------------------------------------------------------------------
(* Vocabulary of the properties *)

FallbackTrace == <<"Init", "FallbackRank", "Done">>
CallFailedTrace == <<"Init", "ContextBuild", "LLMCall", "FallbackRank", "Done">>
MergeTrace == <<"Init", "ContextBuild", "LLMCall", "ParseAndMerge", "Done">>
MergeFallbackTrace ==
    <<"Init", "ContextBuild", "LLMCall", "ParseAndMerge", "FallbackRank", "Done">>

AllowedTraces == {FallbackTrace, CallFailedTrace, MergeTrace, MergeFallbackTrace}

IsPrefix(s, t) == Len(s) <= Len(t) /\ \A i \in 1..Len(s) : s[i] = t[i]

Returned == pc = "done" /\ ~raised
MergedDone == Returned /\ trace = MergeTrace

(* the pool row a result row was made from *)
PoolRowOf(r) == Row(r.idx, r.name, r.rate, r.votes, r.price)

(* the fallback order, stated on two rows: rating descending, then        *)
(* popularity descending, then price ascending, over the columns the pool  *)
(* has, a missing value after every present one, ties in pool order        *)
KeyOrder(c, a, b, cols) ==
    IF c \notin cols \/ a[c] = b[c] THEN "same"
    ELSE IF a[c] = NaN THEN "after"
    ELSE IF b[c] = NaN THEN "before"
    ELSE IF c = "price"
         THEN (IF a[c] < b[c] THEN "before" ELSE "after")
         ELSE (IF a[c] > b[c] THEN "before" ELSE "after")

(* stable: rows equal on every used key are in pool order; otherwise      *)
(* their order is free                                                     *)
FallbackPrecedes(a, b, cols, stable) ==
    LET r == KeyOrder("rate", a, b, cols)
        v == KeyOrder("votes", a, b, cols)
        p == KeyOrder("price", a, b, cols)
    IN  \/ r = "before"
        \/ r = "same" /\ v = "before"
        \/ r = "same" /\ v = "same" /\ p = "before"
        \/ r = "same" /\ v = "same" /\ p = "same" /\ (stable => a.idx < b.idx)

(* the sort is over exactly one column *)
OneSortColumn(cols) == Cardinality(cols \cap {"rate", "votes", "price"}) = 1

(* res is the first k rows of df in the fallback order, each with the     *)
(* fallback reason and without llm_rank                                    *)
IsSortedPrefixOf(res, df, k, stable) ==
    /\ Len(res) = Min(k, Len(df.rows))
    /\ \A i \in 1..Len(res) :
          /\ res[i].idx \in 1..Len(df.rows)
          /\ PoolRowOf(res[i]) = df.rows[res[i].idx]
          /\ res[i].reason = FallbackReason
          /\ res[i].llm_rank = <<>>
    /\ \A i, j \in 1..Len(res) :
          i < j => res[i].idx # res[j].idx
                   /\ FallbackPrecedes(res[i], res[j], df.cols, stable)
    /\ \A n \in 1..Len(df.rows) :
          (\A i \in 1..Len(res) : res[i].idx # n)
             => \A i \in 1..Len(res) :
                   FallbackPrecedes(res[i], df.rows[n], df.cols, stable)

(* the fallback ranking as the code computes it: pool order decides       *)
(* between equal rows except in a sort over a single column                *)
IsFallbackOf(res, df, k) == IsSortedPrefixOf(res, df, k, ~OneSortColumn(df.cols))

(* the fallback ranking with pool order deciding between equal rows *)
IsStableFallbackOf(res, df, k) == IsSortedPrefixOf(res, df, k, TRUE)

(* equality of two names ignoring case, letter by letter *)
SameLetter(c, d) ==
    \/ c = d
    \/ \E i \in 1..Len(UpperChars) : {c, d} = {UpperChars[i], LowerChars[i]}

EqualIgnoringCase(s, t) ==
    Len(s) = Len(t) /\ \A i \in 1..Len(s) : SameLetter(s[i], t[i])

(* the positions of the pool rows a decision's name matches *)
Matches(d) ==
    {n \in 1..Len(pool.rows) : EqualIgnoringCase(pool.rows[n].name, d.name[1])}

SetMin(S) == CHOOSE x \in S : \A y \in S : x <= y

(* the decisions (positions in recs) that resolve to pool row n *)
DecisionsFor(n) ==
    {i \in 1..Len(recs) : Matches(recs[i]) # {} /\ SetMin(Matches(recs[i])) = n}

----------------------------------------------------------------------------
(* C1: the list rank returns has length <= topK, on every path.            *)
(* The code does not keep this: the merge path returns one row per         *)
(* distinct matched decision and the fallback after zero matches takes     *)
(* the first 10 rows whatever top_k is.                                    *)
C1_ResultWithinTopK == Returned => Len(result) <= topK

(* C2: rank never propagates an error: whether the call throws or returns *)
(* non-JSON text, a JSON value that is no array, an empty array or        *)
(* decisions that match nothing, it returns a list of rows.                *)
C2_NoErrorPropagates ==
    /\ ~raised
    /\ pc = "done" /\ outcome # "none" =>
          \A i \in 1..Len(result) :
             /\ result[i].idx \in 1..Len(pool.rows)
             /\ PoolRowOf(result[i]) = pool.rows[result[i].idx]

C2_Witness ==
    /\ pc = "done"
    /\ outcome = "returned"
    /\ response = <<Prose>>
    /\ Len(result) = 2

(* C3: when the call fails or the parser returns no decision, the result  *)
(* is the fallback ranking of the pool for topK: its first topK rows in    *)
(* fallback order, each with the fallback reason and no llm_rank.          *)
C3_FailureGivesFallback ==
    pc = "done" /\ (outcome = "threw" \/ (outcome = "returned" /\ recs = <<>>))
        => ~raised /\ IsFallbackOf(result, pool, topK)

C3_Witness ==
    /\ pc = "done"
    /\ outcome = "returned"
    /\ recs = <<>>
    /\ response = Serialize(Json("array", <<>>))
    /\ pool = SparsePool
    /\ topK = 2
    /\ Len(result) = 2

(* C4: with an empty pool or without a client no external call is issued  *)
(* and the invocation goes from Init directly to FallbackRank; for the     *)
(* three-row pool rated 4.1, 4.0, 3.8 and no credential all three rows     *)
(* come back, the 4.1 one first, each with the fallback reason.            *)
C4_NoClientNoCall ==
    pc \notin {"new", "idle"} /\ (pool.rows = <<>> \/ ~client) =>
        /\ calls = 0
        /\ outcome = "none"
        /\ IsPrefix(trace, FallbackTrace)
        /\ pc = "done" /\ pool = SampleData /\ ~apiKey /\ topK >= 3 =>
              /\ Len(result) = 3
              /\ {result[i].idx : i \in 1..3} = {1, 2, 3}
              /\ result[1].rate = 41
              /\ \A i \in 1..3 : result[i].reason = FallbackReason

C4_Witness ==
    /\ pc = "done"
    /\ pool = SampleData
    /\ ~apiKey
    /\ topK = DefaultTopK
    /\ Len(result) = 3

(* C5: one invocation calls the completion service at most once; a failed *)
(* call or an unusable response is never followed by a second call.        *)
C5_AtMostOneCall ==
    /\ calls <= 1
    /\ Cardinality({i \in 1..Len(trace) : trace[i] = "LLMCall"}) = calls

C5_Witness ==
    /\ pc = "done"
    /\ outcome = "threw"
    /\ calls = 1
    /\ trace = CallFailedTrace

(* C6: the steps of an invocation occur in the order Init, ContextBuild,  *)
(* LLMCall, ParseAndMerge, then Done or FallbackRank and Done, earlier     *)
(* steps being left only by the jump to FallbackRank; ParseAndMerge        *)
(* follows only a call that returned.                                      *)
C6_StepOrder ==
    /\ \E t \in AllowedTraces : IsPrefix(trace, t)
    /\ pc = "done" => trace \in AllowedTraces
    /\ \A i \in 1..Len(trace) : trace[i] = "ParseAndMerge" => outcome = "returned"

C6_Witness ==
    /\ pc = "done"
    /\ trace = MergeFallbackTrace
    /\ recs # <<>>

(* C7: on an empty pool rank returns the empty list and raises nothing,   *)
(* with or without a client.                                               *)
C7_EmptyPoolEmptyResult ==
    pc = "done" /\ pool.rows = <<>> => result = <<>> /\ ~raised

C7_Witness ==
    /\ pc = "done"
    /\ pool.rows = <<>>
    /\ client
    /\ result = <<>>

(* C8: the merge maps each decision to the first pool row, in pool order, *)
(* whose name equals the decision's name ignoring case; a decision that    *)
(* matches no row is dropped and the other decisions merge as without it.  *)
C8_FirstMatchIgnoringCase ==
    MergedDone =>
        /\ \A i \in 1..Len(recs) :
              Matches(recs[i]) # {} =>
                 \E j \in 1..Len(result) : result[j].idx = SetMin(Matches(recs[i]))
        /\ \A j \in 1..Len(result) :
              /\ DecisionsFor(result[j].idx) # {}
              /\ PoolRowOf(result[j]) = pool.rows[result[j].idx]
        /\ \A j, k \in 1..Len(result) :
              j < k => SetMin(DecisionsFor(result[j].idx))
                          < SetMin(DecisionsFor(result[k].idx))

C8_Witness ==
    /\ MergedDone
    /\ Len(recs) = 2
    /\ Matches(recs[1]) = {}
    /\ Cardinality(Matches(recs[2])) = 2
    /\ Len(result) = 1

(* C9: the merged result holds no two rows with the same name; when       *)
(* several decisions resolve to the same pool row, the first of them in    *)
(* response order gives the row its reason and rank.                       *)
C9_NoDuplicateNames ==
    MergedDone =>
        /\ \A j, k \in 1..Len(result) : j # k => result[j].name # result[k].name
        /\ \A j \in 1..Len(result) :
              LET d == recs[SetMin(DecisionsFor(result[j].idx))]
              IN  /\ d.reason # <<>> => result[j].reason = d.reason[1]
                  /\ d.rank # <<>> => result[j].llm_rank = d.rank
                  /\ d.rank = <<>> => result[j].llm_rank \in {<<DefaultRank>>, <<NaN>>}

C9_Witness ==
    /\ MergedDone
    /\ Len(recs) = 2
    /\ DecisionsFor(result[1].idx) = {1, 2}
    /\ recs[1].rank # recs[2].rank
    /\ Len(result) = 1

(* C10: every merged row's llm_rank is its decision's rank when the       *)
(* decision has one and 99 when it has none, also in a response where      *)
(* only some decisions carry a rank.  The code gives a rankless decision   *)
(* NaN instead of 99 as soon as another decision of the response has a     *)
(* rank.                                                                   *)
C10_RankOrDefault ==
    MergedDone =>
        \A j \in 1..Len(result) :
           LET d == recs[SetMin(DecisionsFor(result[j].idx))]
           IN  result[j].llm_rank =
                  IF d.rank # <<>> THEN d.rank ELSE <<DefaultRank>>

----------------------------------------------------------------------------
(* the service returned decisions, each an object with a name, and no      *)
(* name is the name of a pool row                                          *)
NoDecisionMatches ==
    /\ recs # <<>>
    /\ "name" \in pool.cols
    /\ \A i \in 1..Len(recs) :
          /\ recs[i].kind = "object"
          /\ HasName(recs, recs[i])
          /\ Matches(recs[i]) = {}

(* C11: when the service returns decisions but none of them matches a      *)
(* pool row, rank returns the fallback ranking for the caller's topK: the  *)
(* first topK rows of the fallback order.                                  *)
(* The code does not keep this: line 110 asks for the first 10 rows        *)
(* whatever top_k is.                                                      *)
C11_NoMatchGivesTopKFallback ==
    (Returned /\ trace = MergeFallbackTrace /\ NoDecisionMatches)
        => IsFallbackOf(result, pool, topK)

(* C12: FallbackRank returns the first top_k rows of the pool sorted by    *)
(* rating descending, then popularity descending, then price ascending,    *)
(* over the keys that are columns; rows equal on every used key keep       *)
(* their pool order; every row has the fallback reason.                    *)
(* The code does not keep the pool order of equal rows when exactly one    *)
(* of the three keys is a column: sort_values then uses quicksort.         *)
C12_FallbackIsStableSort ==
    (Returned /\ "FallbackRank" \in {trace[i] : i \in 1..Len(trace)})
        => IsStableFallbackOf(result, pool, fbK)

(* C13: on the merge path the returned rows are in the order of the rank   *)
(* the service assigned: llm_rank is non-decreasing along the result, in   *)
(* whatever order the decisions appear in the response.                    *)
(* The code does not keep this: the rows stay in response order.           *)
C13_MergedInRankOrder ==
    MergedDone =>
        \A i, j \in 1..Len(result) :
           (i < j /\ result[i].llm_rank[1] # NaN /\ result[j].llm_rank[1] # NaN)
              => result[i].llm_rank[1] <= result[j].llm_rank[1]

----------------------------------------------------------------------------
(* a decision list is well formed when every element is an object with a  *)
(* name, a rank and a reason                                               *)
WellFormed(a) ==
    \A i \in 1..Len(a) :
       /\ a[i].kind = "object"
       /\ a[i].name # <<>>
       /\ a[i].rank # <<>>
       /\ a[i].reason # <<>>

(* C14: parser round trip: for every well-formed decision list, parse     *)
(* applied to its JSON serialization returns the list, also when the       *)
(* serialization is wrapped in a json-tagged fence or in a bare fence.     *)
(* The code does not keep this for a list with a fence marker inside a     *)
(* reason: the parser cuts the text at that marker.                        *)
C14_ParserRoundTrip ==
    ppc = "parsed" =>
        \A a \in ParserArrays, w \in {"plain", "json", "bare"} :
           (WellFormed(a) /\ ptext = Wrap(w, Serialize(Json("array", a))))
              => pout = [status |-> "ok", data |-> a]

(* texts that hold no JSON array: cut-off JSON, prose, a JSON value that  *)
(* is no array, and a document after a fence that is never closed          *)
BadTexts ==
    { Wrap(w, <<Truncated(Json("array", a))>>) :
        w \in Wrappers, a \in {TestArray, MixedRankArray} }
    \cup { <<Prose>> }
    \cup { Wrap(w, Serialize(Json(t, <<>>))) : w \in Wrappers, t \in NonArrayTypes }
    \cup { Wrap(w, Serialize(d)) : w \in {"json-open", "bare-open"}, d \in ParserDocs }

(* C15: parse never raises, and on cut-off JSON, on text that is no JSON, *)
(* on a JSON value that is no array and on an opened but unclosed fence    *)
(* it returns the empty list.                                              *)
C15_ParseNeverRaises ==
    ppc = "parsed" =>
        /\ pout.status = "ok"
        /\ ptext \in BadTexts => pout.data = <<>>

C15_Witness ==
    /\ ppc = "parsed"
    /\ ptext = Wrap("json-open", Serialize(Json("array", TestArray)))
    /\ pout = [status |-> "ok", data |-> <<>>]

----------------------------------------------------------------------------
(* Vocabulary of the properties of the service *)

(* filter_by_city has run on a loaded catalog; apply_filters has *)
CityFiltered == dpc \in {"price", "score", "dedup", "respond", "rank", "answered"}
                /\ catalog # NoCatalog
Filtered == dpc \in {"score", "dedup", "respond", "rank", "answered"}
            /\ catalog # NoCatalog

(* one of the locality fields the frame has equals the city, case ignored *)
LocalityMatches(df, r, city) ==
    \E f \in {"city", "location"} \cap df.cols :
       r[f] # <<>> /\ EqualIgnoringCase(r[f][1], city)

RowSet(df) == {df.rows[i] : i \in 1..Len(df.rows)}

(* C16: the city filter returns exactly the catalog rows one of whose      *)
(* locality fields equals the criteria city after case folding, in         *)
(* catalog order, and returns the same rows for every letter-casing of     *)
(* the city.                                                               *)
C16_CityFilterIgnoresCase ==
    CityFiltered =>
        /\ byCity.cols = catalog.cols
        /\ byCity.rows = SelectSeq(catalog.rows,
                                   LAMBDA r : LocalityMatches(catalog, r, criteria.city))
        /\ \A c \in CriteriaCities :
              EqualIgnoringCase(c, criteria.city) => filter_by_city(catalog, c) = byCity

C16_Witness ==
    /\ dpc = "price"
    /\ catalog = FilterTestCatalog
    /\ criteria.city = Lower(Banashankari)
    /\ Len(byCity.rows) = 3

(* every row of the frame has a price, and one within the criteria *)
PricesWithinMax(df) ==
    \A i \in 1..Len(df.rows) :
       df.rows[i].price # NaN /\ df.rows[i].price <= criteria.price

(* C17 as stated: every record filter and integrate return has a price    *)
(* that is present and <= maxPrice, for every catalog shape the filter     *)
(* accepts.  It fails for a catalog without a price column, where          *)
(* filter_by_price skips the filter.                                       *)
C17_PriceWithinMax == PricesWithinMax(subset) /\ PricesWithinMax(dpool)

(* C17, amended: when the catalog has a price column, every record filter *)
(* and integrate return has a price that is present and <= maxPrice.       *)
C17_PriceWithinMaxWhenColumn ==
    "price" \in catalog.cols => PricesWithinMax(subset) /\ PricesWithinMax(dpool)

C17_Witness ==
    /\ dpc = "respond"
    /\ "price" \in catalog.cols
    /\ Len(dpool.rows) > 0
    /\ \E i \in 1..Len(byCity.rows) : byCity.rows[i].price = NaN

(* C18: filtering is monotonic in maxPrice: for the same catalog and city *)
(* the rows returned for a smaller maxPrice are among those returned for   *)
(* a larger one, so the count never grows when maxPrice is narrowed.       *)
C18_MonotonicInMaxPrice ==
    Filtered =>
        \A p \in CriteriaPrices :
           p <= criteria.price =>
              /\ RowSet(apply_filters(catalog, criteria.city, p)) \subseteq RowSet(subset)
              /\ Len(apply_filters(catalog, criteria.city, p).rows) <= Len(subset.rows)

C18_Witness ==
    /\ Filtered
    /\ \E p \in CriteriaPrices :
          /\ p < criteria.price
          /\ apply_filters(catalog, criteria.city, p).rows # <<>>
          /\ Len(apply_filters(catalog, criteria.city, p).rows) < Len(subset.rows)

(* no catalog row matches the city and the price; the price is asked of   *)
(* a catalog that has a price column                                       *)
NoRecordMatches ==
    \A i \in 1..Len(catalog.rows) :
       ~ /\ LocalityMatches(catalog, catalog.rows[i], criteria.city)
         /\ "price" \in catalog.cols =>
               /\ catalog.rows[i].price # NaN
               /\ catalog.rows[i].price <= criteria.price

OkEmpty == [status |-> 200, count |-> 0, recommendations |-> <<>>]

(* C19: when no catalog record matches the city and price, filter and     *)
(* integrate return an empty frame and raise nothing, and the recommend    *)
(* endpoint answers with count 0 and an empty list.                        *)
C19_NoMatchIsEmptyNotError ==
    (Filtered /\ NoRecordMatches) =>
        /\ subset.rows = <<>>
        /\ ~draised
        /\ dpc # "rank"
        /\ dpc \in {"respond", "answered"} => dpool.rows = <<>>
        /\ dpc = "answered" => http = OkEmpty

C19_Witness ==
    /\ dpc = "answered"
    /\ catalog = FilterTestCatalog
    /\ criteria.city = Mysore
    /\ http = OkEmpty

(* a score lies in [0, 1] *)
InUnit(f) == f.d > 0 /\ 0 <= f.n /\ f.n <= f.d

(* ratings in 0..5, votes and prices not negative, each possibly missing *)
InRange(df) ==
    \A i \in 1..Len(df.rows) :
       /\ df.rows[i].rate = NaN \/ df.rows[i].rate \in 0..FiveStars
       /\ df.rows[i].votes = NaN \/ df.rows[i].votes >= 0
       /\ df.rows[i].price = NaN \/ df.rows[i].price >= 0

(* C20: for a frame with ratings in 0..5 and votes and prices not         *)
(* negative, each possibly missing, the four sub-scores and the            *)
(* recommendation score of every row lie in [0, 1].                        *)
C20_ScoresInUnitInterval ==
    InRange(scored) =>
        \A i \in 1..Len(scored.rows) :
           /\ InUnit(scored.rows[i].rating_score)
           /\ InUnit(scored.rows[i].popularity_score)
           /\ InUnit(scored.rows[i].price_score)
           /\ InUnit(scored.rows[i].completeness_score)
           /\ InUnit(scored.rows[i].recommendation_score)

C20_Witness ==
    /\ dpc = "scored"
    /\ Len(scored.rows) = 2
    /\ "price" \in scored.cols
    /\ \E i \in 1..2 : scored.rows[i].price = NaN /\ scored.rows[i].price_score.n = 0
    /\ \E i \in 1..2 : /\ scored.rows[i].rating_score.n = scored.rows[i].rating_score.d
                       /\ scored.rows[i].popularity_score.n = scored.rows[i].popularity_score.d
                       /\ scored.rows[i].completeness_score.n = scored.rows[i].completeness_score.d

(* integrate has returned a pool: the early return of line 196 or the     *)
(* return of line 209                                                      *)
Integrated == dpc \in {"respond", "rank"}

SamePair(a, b) == a.name = b.name /\ a.location = b.location

C22_SortedByScoreStable ==
    (Integrated /\ Len(dpool.rows) > 0) =>
        \A i, j \in 1..Len(dpool.rows) :
           i < j =>
              \/ dpool.rows[i].recommendation_score.n > dpool.rows[j].recommendation_score.n
              \/ /\ dpool.rows[i].recommendation_score.n = dpool.rows[j].recommendation_score.n
                 /\ dpool.rows[i].idx < dpool.rows[j].idx

----------------------------------------------------------------------------
(* Vocabulary of the properties of the concurrent requests *)

(* the pools integrate may return for these criteria on this catalog *)
IntegrateOutcomes(cat, c) ==
    LET filtered == apply_filters(cat, c.city, c.price)
        enhanced == engineer_features(filtered)
    IN  IF EarlyReturn(filtered)
        THEN {filtered}
        ELSE { [cols |-> enhanced.cols, rows |-> sorted] :
                  sorted \in SortByScore(DropDuplicates(enhanced.rows)) }

Ranked(i) == reqs[i].pc = "answered" /\ reqs[i].given # NoFrame

(* C23: no call of the pipeline writes to the frame it is given: the      *)
(* shared catalog always holds the rows, columns and order it was loaded   *)
(* with, the frame the filters returned has no score column after          *)
(* engineer_features, and the pool passed to generate_recommendations      *)
(* holds the same rows, columns and order after the call (no reason, no    *)
(* llm_rank, no reordering), on the merge path and on the fallback path.   *)
C23_InputsNotMutated ==
    /\ store = asLoaded
    /\ \A i \in DOMAIN reqs :
          /\ reqs[i].pc \in {"dedup", "respond", "answered"} =>
                /\ reqs[i].filtered.cols \cap ScoreCols = {}
                /\ reqs[i].filtered =
                      apply_filters(asLoaded, reqs[i].criteria.city, reqs[i].criteria.price)
          /\ Ranked(i) =>
                /\ reqs[i].held = reqs[i].given
                /\ reqs[i].given = AsPool(reqs[i].pool)
                /\ reqs[i].held.cols \cap {"reason", "llm_rank"} = {}

(* one request answered from the merge and one from the fallback ranking, *)
(* both after scoring, over a catalog of several rows                      *)
C23_Witness ==
    /\ Len(store.rows) > 1
    /\ \E i, j \in DOMAIN reqs :
          /\ Ranked(i) /\ Ranked(j)
          /\ reqs[i].enhanced # NoFrame /\ reqs[j].enhanced # NoFrame
          /\ Len(reqs[i].result) > 0 /\ reqs[i].result[1].llm_rank # <<>>
          /\ Len(reqs[j].result) > 1 /\ reqs[j].result[1].llm_rank = <<>>
          /\ reqs[j].result[1].idx # reqs[j].given.rows[1].idx

(* C24: under every interleaving of the steps of the concurrent requests, *)
(* the pool of each request is a pool integrate returns for its criteria   *)
(* on the catalog as loaded, and its result is a result                    *)
(* generate_recommendations returns for that pool and the outcome of its   *)
(* own external call.                                                      *)
C24_RequestsDoNotInterfere ==
    \A i \in DOMAIN reqs :
       /\ reqs[i].pc \in {"respond", "answered"} =>
             reqs[i].pool \in IntegrateOutcomes(asLoaded, reqs[i].criteria)
       /\ reqs[i].pc = "answered" =>
             IF Len(reqs[i].pool.rows) = 0
             THEN reqs[i].result = <<>>
             ELSE reqs[i].result \in
                     RankCall(AsPool(reqs[i].pool), DefaultTopK, reqs[i].outcome)

(* two requests with different criteria under way at the same time, one   *)
(* between scoring and sorting, the other with its pool                    *)
C24_Witness ==
    \E i, j \in DOMAIN reqs :
       /\ reqs[i].pc = "dedup"
       /\ reqs[j].pc = "respond"
       /\ reqs[i].criteria # reqs[j].criteria
       /\ Len(reqs[i].enhanced.rows) > 1
       /\ Len(reqs[j].pool.rows) > 1
       /\ reqs[j].pool.rows # reqs[i].enhanced.rows

(* the value of a score is the number p / q *)
IsRatio(f, p, q) == f.n * q = p * f.d

(* the largest rating present in the frame, NaN when there is none *)
MaxRating(df) ==
    LET present == {df.rows[i].rate : i \in 1..Len(df.rows)} \ {NaN}
    IN  IF present = {} THEN NaN
        ELSE CHOOSE x \in present : \A y \in present : x >= y

(* C25: when the scored frame has no rating column every row gets          *)
(* rating_score 0.5; when it has one, a row without rating gets 0 and      *)
(* every other row its rating divided by the largest rating of the frame,  *)
(* or by 5.0 when that maximum is 0 or there is none, and then not every   *)
(* row has rating_score 0.5.                                               *)
C25_RatingScore ==
    scored # NoFrame =>
        IF "rate" \notin scored.cols
        THEN \A i \in 1..Len(scored.rows) : IsRatio(scored.rows[i].rating_score, 1, 2)
        ELSE LET divisor == IF MaxRating(scored) # NaN /\ MaxRating(scored) > 0
                            THEN MaxRating(scored) ELSE FiveStars
             IN  /\ \A i \in 1..Len(scored.rows) :
                       IF scored.rows[i].rate = NaN
                       THEN IsRatio(scored.rows[i].rating_score, 0, 1)
                       ELSE IsRatio(scored.rows[i].rating_score, scored.rows[i].rate, divisor)
                 /\ Len(scored.rows) > 0 =>
                       \E i \in 1..Len(scored.rows) :
                          ~IsRatio(scored.rows[i].rating_score, 1, 2)

(* a frame with a rating column, one row without rating scored 0 and one  *)
(* row with the largest rating scored 1                                    *)
C25_Witness ==
    /\ "rate" \in scored.cols
    /\ Len(scored.rows) = 2
    /\ \E i, j \in 1..2 :
          /\ scored.rows[i].rate = NaN
          /\ IsRatio(scored.rows[i].rating_score, 0, 1)
          /\ scored.rows[j].rate > 0
          /\ IsRatio(scored.rows[j].rating_score, 1, 1)

(* C26: while the catalog is not loaded, POST /api/recommend answers with *)
(* status 503, as GET /api/cities does.                                    *)
C26_NotLoadedGives503 ==
    (catalog = NoCatalog /\ dpc \in {"answered", "cities"}) => http.status = 503

----------------------------------------------------------------------------
(* C27: every row of the list generate_recommendations returns is a row   *)
(* of the pool it was given with name, rating, votes and price unchanged,  *)
(* plus a reason, and plus an llm_rank exactly on the merge path, where    *)
(* some decision names the row ignoring case; the name of a decision that  *)
(* matches no pool row is the name of no returned row.                     *)
C27_ResultRowsArePoolRows ==
    Returned =>
        /\ \A i \in 1..Len(result) :
              /\ result[i].idx \in 1..Len(pool.rows)
              /\ PoolRowOf(result[i]) = pool.rows[result[i].idx]
              /\ DOMAIN result[i] = DOMAIN pool.rows[result[i].idx] \cup {"reason", "llm_rank"}
              /\ IF trace = MergeTrace
                 THEN /\ result[i].llm_rank # <<>>
                      /\ DecisionsFor(result[i].idx) # {}
                 ELSE /\ result[i].llm_rank = <<>>
                      /\ result[i].reason = FallbackReason
        /\ \A d \in 1..Len(recs) :
              (recs[d].name # <<>> /\ Matches(recs[d]) = {}) =>
                 \A i \in 1..Len(result) : result[i].name # recs[d].name[1]

(* a response with a decision for a pool row and a decision with a name   *)
(* of no pool row: the pool row comes back whole, the other name does not  *)
C27_Witness ==
    /\ MergedDone
    /\ Len(pool.rows) = 2
    /\ PoolCols \subseteq pool.cols
    /\ Len(recs) = 2
    /\ Matches(recs[2]) = {}
    /\ Cardinality(Matches(recs[1])) = 1
    /\ Len(result) = 1
    /\ PoolRowOf(result[1]) = pool.rows[SetMin(Matches(recs[1]))]
    /\ result[1].rate # NaN

(* the parsed array has an element without a usable name: one that is no  *)
(* object or an object without the name key                                *)
HasUnusableName ==
    \E i \in 1..Len(recs) : recs[i].kind # "object" \/ recs[i].name = <<>>

(* C28: when the parsed array holds an element without a usable name,     *)
(* generate_recommendations raises nothing and returns the fallback        *)
(* ranking of the pool for top_k; no row carries an llm_rank or the reason *)
(* of a decision, also when other decisions of the array name pool rows.   *)
C28_UnusableNameGivesFallback ==
    (pc = "done" /\ outcome = "returned" /\ HasUnusableName) =>
        /\ ~raised
        /\ trace = MergeFallbackTrace
        /\ IsFallbackOf(result, pool, topK)
        /\ \A i \in 1..Len(result) :
              result[i].llm_rank = <<>> /\ result[i].reason = FallbackReason

(* a decision naming a pool row followed by an object without name *)
C28_Witness ==
    /\ pc = "done"
    /\ Len(recs) = 2
    /\ recs[1].kind = "object" /\ recs[1].name # <<>>
    /\ Matches(recs[1]) # {}
    /\ recs[2].kind = "object" /\ recs[2].name = <<>>
    /\ Len(pool.rows) = 2
    /\ topK = 1
    /\ Len(result) = 1
    /\ result[1].reason = FallbackReason

(* prepare_context has run in this invocation *)
ContextBuilt == \E i \in 1..Len(trace) : trace[i] = "ContextBuild"

(* C29: the context holds one line for each of the first 50 pool rows, or *)
(* for all when there are fewer, in pool order, while the merge looks a    *)
(* decision's name up in the whole pool: every decision that names a pool  *)
(* row, at whatever position, has that row in the merged result.           *)
C29_ContextCapsMergeDoesNot ==
    /\ ContextBuilt =>
          /\ Len(context) = Min(MaxItems, Len(pool.rows))
          /\ \A i \in 1..Len(context) : context[i] = ContextLine(pool.rows[i])
    /\ MergedDone =>
          \A d \in 1..Len(recs) :
             Matches(recs[d]) # {} =>
                \E j \in 1..Len(result) :
                   PoolRowOf(result[j]) = pool.rows[SetMin(Matches(recs[d]))]

(* a pool of 51 rows: the context has 50 lines, none of them for row 51,  *)
(* and row 51 is in the merged result                                      *)
C29_Witness ==
    /\ MergedDone
    /\ Len(pool.rows) > MaxItems
    /\ Len(context) = MaxItems
    /\ \E j \in 1..Len(result) :
          /\ result[j].idx > MaxItems
          /\ result[j].llm_rank = <<1>>
          /\ \A i \in 1..Len(context) : context[i].name # result[j].name

(* an invocation is under way *)
Running == pc \in {"init", "context", "llmcall", "parse", "fallback",
                   "mergefallback", "return"}

(* how far along the invocation is *)
Position(p) ==
    CASE p = "new" -> 0
      [] p = "idle" -> 1
      [] p = "init" -> 2
      [] p = "context" -> 3
      [] p = "llmcall" -> 4
      [] p = "parse" -> 5
      [] p \in {"fallback", "mergefallback"} -> 6
      [] p = "return" -> 7
      [] p = "done" -> 8

(* C30: every step of an invocation moves it forward, never back to a     *)
(* step it has taken or to the same step, and, the external call           *)
(* eventually returning or failing, every invocation eventually reaches    *)
(* Done and returns without raising.                                       *)
C30_EventuallyDone ==
    /\ [][Position(pc') > Position(pc)]_vars
    /\ Running ~> Returned

(* an invocation on the large pool that went through every step and       *)
(* returned                                                                *)
C30_Witness ==
    /\ pc = "done"
    /\ ~raised
    /\ trace = MergeFallbackTrace
    /\ calls = 1
    /\ pool = BigPool
    /\ Len(result) = DefaultTopK

====
